---- MODULE Spec2Model ----
(***************************************************************************)
(* FastContentsCore (packages/fastcontents/src/core/FastContentsCore.ts):  *)
(* the pagination / navigation state engine of the fastcontents library.   *)
(*                                                                         *)
(* One controller instance is modelled.  Every synchronous run of code     *)
(* (a public method up to its first pending await, or the continuation of  *)
(* loadMore after the awaited fetch promise settles) is one action.  The   *)
(* environment supplies the behaviour of fetchCallback: at call time it    *)
(* either throws synchronously or returns a promise; a returned promise is *)
(* later fulfilled with a FetchResult or rejected with a value.            *)
(* Listeners return normally.  While it is being notified a listener may   *)
(* call an unsubscribe function (its own or that of another listener); it  *)
(* calls no other method of the controller.  A FetchResult is well formed  *)
(* (items is an array), as the TypeScript types of types.ts require.       *)
(***************************************************************************)
EXTENDS Integers, Sequences, FiniteSets, TLC

VARIABLES
    world,          \* the environment: which listeners exist, what fetchCallback yields
    options,        \* the FastContentsConfig the constructor was called with
    config,         \* this.config (after the defaults of the constructor)
    state,          \* this.state : ContentState<T>
    offset,         \* this.offset
    currentCursor,  \* this.currentCursor
    listeners,      \* this.listeners : the Set, as its members in insertion order
    inflight,       \* the fetchCallback invocations whose promise is not yet handled
    fetchCount,     \* history: the number of fetchCallback invocations so far
    lastParams,     \* history: the params of the latest fetchCallback invocation
    delivered,      \* history: the items of the fulfilled responses, in handling order
    exhausted,      \* history: some fulfilled response had hasMore false
    lastNextCursor, \* history: the latest nextCursor a fulfilled response carried
    lastToken,      \* history: the latest non-empty nextCursor of a fulfilled response
    lastOutcome,    \* history: how the latest handled settlement ended
    succeeded,      \* history: some fetch was fulfilled
    subscription,   \* history: what was last done about each listener
    lifecycle,      \* history: whether destroy() was called, and what followed
    registrations,  \* history: the calls of subscribe(l) since l was last removed
    round,          \* the broadcasts made by the last action, in order
    handled,        \* the settlements handled by the last action, in order
    op,             \* the method or continuation the last action ran
    hook,           \* useFastContent: the component's props, refs and effects
    swipe           \* useSwipe: its state and refs, and the pointer and the
                    \* transition of the container

vars == <<world, options, config, state, offset, currentCursor, listeners, inflight,
          fetchCount, lastParams, delivered, exhausted, lastNextCursor,
          lastToken, lastOutcome, succeeded,
          subscription, lifecycle, registrations, round, handled, op,
          hook, swipe>>

----------------------------------------------------------------------------
(* Bounds of the model *)

\* fetchCallback is invoked at most MaxFetches times
MaxFetches == 3
\* a FetchResult carries 0..MaxPage items
MaxPage == 2
\* number of distinct listener functions of an audience
NumListeners == 2
\* fetchCallback is invoked at most MaxAudienceFetches times before an audience
MaxAudienceFetches == 2
\* a listener is subscribed at most MaxSubscribes times before it is removed
MaxSubscribes == 2
\* the effect of useFastContent creates at most MaxCores controllers
MaxCores == 2

----------------------------------------------------------------------------
(* Values *)

\* an absent optional number of FastContentsConfig
UndefinedNum == -1
\* an absent optional string (params.cursor, result.nextCursor, this.currentCursor)
Undefined == "undefined"
\* state.error === null
Null == [isError |-> FALSE, message |-> "null"]

\* default of initialBatchSize and of batchSize
DefaultBatchSize == 3

\* the configurations the consumer constructs the controller with
Configs == {[initialBatchSize |-> UndefinedNum, batchSize |-> UndefinedNum],
            [initialBatchSize |-> 2, batchSize |-> 1]}

\* continuation tokens a response may supply (Undefined: nextCursor omitted;
\* "" is a string that is not truthy)
NextCursors == {Undefined, "", "c1", "c2"}

\* values a fetchCallback may throw or reject with: an Error instance and a
\* value that is not an Error
ErrorX == [isError |-> TRUE, message |-> "x"]
Thrown == {ErrorX, [isError |-> FALSE, message |-> "boom"]}

\* a feed: the consumer is one view (as the hook useFastContent is) and the
\* server answers with pages of any size, any token and any failure; the
\* histories of the listeners are not kept
Feed ==
    [listenerIds |-> {1}, maxFetches |-> MaxFetches, pages |-> 0..MaxPage,
     nextCursors |-> NextCursors, thrown |-> Thrown, configs |-> Configs,
     histories |-> FALSE, registry |-> FALSE, reentrant |-> TRUE]

\* an audience: several listeners come and go in front of a server that
\* answers with one-item pages, with or without a token, or fails with an
\* Error; the histories of the listeners are kept
Audience ==
    [listenerIds |-> 1..NumListeners, maxFetches |-> MaxAudienceFetches, pages |-> {1},
     nextCursors |-> {Undefined, "c1"}, thrown |-> {ErrorX},
     configs |-> {[initialBatchSize |-> UndefinedNum, batchSize |-> UndefinedNum]},
     histories |-> TRUE, registry |-> FALSE, reentrant |-> TRUE]

\* a registry: the listeners of an audience subscribe again and again, and
\* the calls of subscribe are counted; the server answers once
Registry ==
    [listenerIds |-> 1..NumListeners, maxFetches |-> 1, pages |-> {1},
     nextCursors |-> {Undefined}, thrown |-> {ErrorX},
     configs |-> {[initialBatchSize |-> UndefinedNum, batchSize |-> UndefinedNum]},
     histories |-> TRUE, registry |-> TRUE, reentrant |-> TRUE]

\* a screen: the controller belongs to a component that uses the hook
\* useFastContent; its only listener hands the state to setState and calls
\* no unsubscribe function while it is notified
Screen ==
    [listenerIds |-> {1}, maxFetches |-> MaxAudienceFetches, pages |-> {0, 1},
     nextCursors |-> {Undefined}, thrown |-> {ErrorX}, configs |-> Configs,
     histories |-> TRUE, registry |-> FALSE, reentrant |-> FALSE]

\* a gallery: the controller belongs to a FastContent component with
\* enableSwipe, whose server answers with pages of two items
Gallery ==
    [listenerIds |-> {1}, maxFetches |-> MaxAudienceFetches, pages |-> {2},
     nextCursors |-> {Undefined}, thrown |-> {ErrorX},
     configs |-> {[initialBatchSize |-> UndefinedNum, batchSize |-> UndefinedNum]},
     histories |-> FALSE, registry |-> FALSE, reentrant |-> FALSE]

ListenerIds == world.listenerIds

\* the members of a Set kept in insertion order
Members(set) == {set[i] : i \in 1..Len(set)}

\* what the listeners do while they are notified in one action: nothing, or
\* listener `actor` calls the unsubscribe function of listener `victim`
NoScript == [actor |-> 0, victim |-> 0]
Scripts ==
    {NoScript} \cup IF world.reentrant
                    THEN [actor : Members(listeners), victim : Members(listeners)]
                    ELSE {}

\* n items no earlier response contained, after `served` items were served
ItemsOf(served, n) == [k \in 1..n |-> served + k]

\* FetchResult<T>
FetchResults(served) ==
    [items : {ItemsOf(served, n) : n \in world.pages},
     hasMore : BOOLEAN,
     nextCursor : world.nextCursors]

\* what a fetchCallback invocation does before it returns
FetchBehaviours == {[kind |-> "promise", value |-> Null]}
                   \cup {[kind |-> "throw", value |-> v] : v \in world.thrown}

\* PaginationParams of no invocation
NoParams == [offset |-> -1, limit |-> -1, cursor |-> Undefined]

----------------------------------------------------------------------------
(* The controller.  The operators below take and return the whole          *)
(* controller m (its fields and the histories) so that a method that makes *)
(* several updates in a row is the composition of its steps.               *)

Machine ==
    [world |-> world, state |-> state, offset |-> offset, currentCursor |-> currentCursor,
     listeners |-> listeners, config |-> config, inflight |-> inflight,
     fetchCount |-> fetchCount, lastParams |-> lastParams,
     delivered |-> delivered, exhausted |-> exhausted,
     lastNextCursor |-> lastNextCursor, lastToken |-> lastToken,
     lastOutcome |-> lastOutcome, succeeded |-> succeeded,
     subscription |-> subscription, lifecycle |-> lifecycle,
     registrations |-> registrations,
     script |-> NoScript, round |-> <<>>, handled |-> <<>>]

\* the controller when its listeners behave as `script` says
Listening(script) == [Machine EXCEPT !.script = script]

\* a ?? d
Coalesce(a, d) == IF a = UndefinedNum THEN d ELSE a

\* the constructor: this.config
constructorConfig(c) ==
    [initialBatchSize |-> Coalesce(c.initialBatchSize, DefaultBatchSize),
     batchSize |-> Coalesce(c.batchSize, DefaultBatchSize)]

\* the constructor: this.state
InitialState ==
    [items |-> <<>>, currentIndex |-> 0, isLoading |-> FALSE,
     isInitialized |-> FALSE, error |-> Null, hasMore |-> TRUE]

\* getState(): a copy of this.state
getState(m) == m.state

\* what a consumer can do to the object getState() returned or a listener
\* received: assign one of its fields, or change its items array in place
Mutations == {"assign", "pop"}

\* getState(): the effect on the controller of a consumer's mutation of the
\* snapshot. { ...this.state } is a new object whose items field refers to
\* the array this.state.items refers to: an assignment to a field of the
\* snapshot stays in the snapshot, snapshot.items.pop() removes the last
\* element of the controller's own array, and no listener is told
mutateSnapshot(m, mutation) ==
    IF mutation = "pop" /\ Len(getState(m).items) > 0
    THEN [m EXCEPT !.state.items = SubSeq(@, 1, Len(@) - 1)]
    ELSE m

\* the history of the listeners, where it is kept: what was done about
\* each of them and about the controller
chronicle(m, subscriptions, life) ==
    IF m.world.histories
    THEN [m EXCEPT !.subscription = subscriptions, !.lifecycle = life]
    ELSE m

\* the count of the calls of subscribe, where it is kept
register(m, counts) ==
    IF m.world.registry
    THEN [m EXCEPT !.registrations = counts]
    ELSE m

\* variant of unsubscribe: the listener stays in the Set
unsubscribe_KeepsListener(m, listener) ==
    chronicle(m, [m.subscription EXCEPT ![listener] = "cancelled"], m.lifecycle)

\* the function subscribe returns: this.listeners.delete(listener)
unsubscribe(m, listener) ==
    register(chronicle([m EXCEPT !.listeners = SelectSeq(@, LAMBDA l : l # listener)],
                       [m.subscription EXCEPT ![listener] = "cancelled"], m.lifecycle),
             [m.registrations EXCEPT ![listener] = 0])

\* listener(this.getState()): the call is recorded in the current broadcast,
\* then the listener does what the script says
invoke(m, listener) ==
    LET m1 == [m EXCEPT !.round[Len(m.round)].to = Append(@, listener)]
    IN IF m.script.actor = listener
       THEN [unsubscribe(m1, m.script.victim)
                EXCEPT !.round[Len(m.round)].unsubscribed =
                           Append(@, [victim |-> m.script.victim,
                                      after |-> Len(m1.round[Len(m.round)].to)])]
       ELSE m1

\* for (const listener of this.listeners), from the i-th member on: a Set is
\* iterated in insertion order and a member deleted before its turn is not
\* visited
RECURSIVE forOfListeners(_, _, _)
forOfListeners(m, order, i) ==
    IF i > Len(order) THEN m
    ELSE IF order[i] \in Members(m.listeners)
         THEN forOfListeners(invoke(m, order[i]), order, i + 1)
         ELSE forOfListeners(m, order, i + 1)

\* notifyListeners(): every registered listener receives getState() (the
\* broadcast also records how often fetchCallback had been invoked by then)
notifyListeners(m) ==
    forOfListeners([m EXCEPT !.round = Append(@, [snapshot |-> getState(m), to |-> <<>>,
                                           unsubscribed |-> <<>>,
                                           calls |-> m.fetchCount])],
            m.listeners, 1)

\* { ...this.state, ...partial }
Merge(s, partial) ==
    [f \in DOMAIN s |-> IF f \in DOMAIN partial THEN partial[f] ELSE s[f]]

\* variant of updateState: the listeners are notified before the state is replaced
updateState_NotifiesFirst(m, partial) ==
    [notifyListeners(m) EXCEPT !.state = Merge(m.state, partial)]

\* updateState(partial)
updateState(m, partial) ==
    notifyListeners([m EXCEPT !.state = Merge(@, partial)])

\* JavaScript truthiness of an optional string
Truthy(c) == c # Undefined /\ c # ""

\* String(value) of a thrown value
String(v) == IF v.isError THEN "Error: " \o v.message ELSE v.message

\* variant of toError: every caught value is wrapped in a new Error
toError_AlwaysWraps(v) == [isError |-> TRUE, message |-> String(v)]

\* error instanceof Error ? error : new Error(String(error))
toError(v) == IF v.isError THEN v ELSE [isError |-> TRUE, message |-> String(v)]

\* the promise of request r was fulfilled with result
Fulfilment(result) == [ok |-> TRUE, result |-> result]

\* fetchCallback threw value, or the promise of request r was rejected with it
Failure(value) == [ok |-> FALSE, value |-> value]

\* the awaited promise of request r settles with outcome: loadMore resumes
\* (the histories record what the environment answered)
resume(m, r, outcome) ==
    LET m1 == [m EXCEPT !.inflight = @ \ {r},
                        !.handled = Append(@, [id |-> r.id,
                                               late |-> m.lifecycle = "destroyedMidFetch"]
                                              @@ outcome),
                        !.lastOutcome = IF outcome.ok THEN "fulfilled"
                                        ELSE "rejected",
                        !.succeeded = @ \/ outcome.ok,
                        !.lifecycle = IF @ = "destroyedMidFetch" THEN "destroyed"
                                      ELSE @]
    IN IF ~outcome.ok THEN m1
       ELSE LET result == outcome.result
            IN [m1 EXCEPT !.delivered = @ \o result.items,
                          !.exhausted = @ \/ ~result.hasMore,
                          !.lastNextCursor = IF result.nextCursor # Undefined
                                             THEN result.nextCursor ELSE @,
                          !.lastToken = IF result.nextCursor \notin {Undefined, ""}
                                        THEN result.nextCursor ELSE @]

\* variant of loadMoreCatch: a failed fetch also marks the controller initialized
loadMoreCatch_MarksInitialized(m, error) ==
    updateState(m, [error |-> toError(error), isLoading |-> FALSE,
                    isInitialized |-> TRUE])

\* variant of loadMoreCatch: a failed fetch skips the page it asked for
loadMoreCatch_SkipsPage(m, error) ==
    updateState([m EXCEPT !.offset = @ + m.lastParams.limit],
                [error |-> toError(error), isLoading |-> FALSE])

\* variant of loadMoreCatch: a failure ends the list
loadMoreCatch_GivesUp(m, error) ==
    updateState(m, [error |-> toError(error), isLoading |-> FALSE, hasMore |-> FALSE])

\* loadMore(): the catch block
loadMoreCatch(m, error) ==
    updateState(m, [error |-> toError(error), isLoading |-> FALSE])

\* variant of loadMoreFulfilled: the new items are put in front of the buffer
loadMoreFulfilled_Prepends(m, result) ==
    LET m1 == [m EXCEPT !.offset = @ + Len(result.items),
                        !.currentCursor = IF Truthy(result.nextCursor)
                                          THEN result.nextCursor ELSE @]
    IN updateState(m1, [items |-> result.items \o m1.state.items,
                        hasMore |-> result.hasMore,
                        isLoading |-> FALSE,
                        isInitialized |-> TRUE])

\* variant of loadMoreFulfilled: isLoading is not reset
loadMoreFulfilled_StaysLoading(m, result) ==
    LET m1 == [m EXCEPT !.offset = @ + Len(result.items),
                        !.currentCursor = IF Truthy(result.nextCursor)
                                          THEN result.nextCursor ELSE @]
    IN updateState(m1, [items |-> m1.state.items \o result.items,
                        hasMore |-> result.hasMore,
                        isInitialized |-> TRUE])

\* variant of loadMoreFulfilled: offset advances by the requested limit
loadMoreFulfilled_OffsetByLimit(m, result) ==
    LET m1 == [m EXCEPT !.offset = @ + m.lastParams.limit,
                        !.currentCursor = IF Truthy(result.nextCursor)
                                          THEN result.nextCursor ELSE @]
    IN updateState(m1, [items |-> m1.state.items \o result.items,
                        hasMore |-> result.hasMore,
                        isLoading |-> FALSE,
                        isInitialized |-> TRUE])

\* variant of loadMoreFulfilled: a response without nextCursor clears the cursor
loadMoreFulfilled_CursorNotSticky(m, result) ==
    LET m1 == [m EXCEPT !.offset = @ + Len(result.items),
                        !.currentCursor = result.nextCursor]
    IN updateState(m1, [items |-> m1.state.items \o result.items,
                        hasMore |-> result.hasMore,
                        isLoading |-> FALSE,
                        isInitialized |-> TRUE])

\* variant of loadMoreFulfilled: a result that arrives after destroy() is dropped
loadMoreFulfilled_DropsLate(m, result) ==
    IF m.handled[Len(m.handled)].late THEN m
    ELSE LET m1 == [m EXCEPT !.offset = @ + Len(result.items),
                             !.currentCursor = IF Truthy(result.nextCursor)
                                               THEN result.nextCursor ELSE @]
         IN updateState(m1, [items |-> m1.state.items \o result.items,
                             hasMore |-> result.hasMore,
                             isLoading |-> FALSE,
                             isInitialized |-> TRUE])

\* variant of loadMoreFulfilled: an empty response does not initialize
loadMoreFulfilled_InitializedIfItems(m, result) ==
    LET m1 == [m EXCEPT !.offset = @ + Len(result.items),
                        !.currentCursor = IF Truthy(result.nextCursor)
                                          THEN result.nextCursor ELSE @]
    IN updateState(m1, [items |-> m1.state.items \o result.items,
                        hasMore |-> result.hasMore,
                        isLoading |-> FALSE,
                        isInitialized |-> m1.state.isInitialized \/ Len(result.items) > 0])

\* loadMore(): the statements after the await, for a fulfilled promise
loadMoreFulfilled(m, result) ==
    LET m1 == [m EXCEPT !.offset = @ + Len(result.items),
                        !.currentCursor = IF Truthy(result.nextCursor)
                                          THEN result.nextCursor ELSE @]
    IN updateState(m1, [items |-> m1.state.items \o result.items,
                        hasMore |-> result.hasMore,
                        isLoading |-> FALSE,
                        isInitialized |-> TRUE])

\* variant of loadMoreGuard: the isLoading test is missing
loadMoreGuard_NoLoadingTest(s) == ~s.hasMore

\* variant of loadMoreGuard: the hasMore test is missing
loadMoreGuard_NoHasMoreTest(s) == s.isLoading

\* variant of loadMoreGuard: the two tests are joined by && instead of ||
loadMoreGuard_BothNeeded(s) == s.isLoading /\ ~s.hasMore

\* loadMore(): the guard
loadMoreGuard(s) == s.isLoading \/ ~s.hasMore

\* variant of loadMoreLimit: the two batch sizes are swapped
loadMoreLimit_Swapped(m) ==
    IF m.state.isInitialized THEN m.config.initialBatchSize
    ELSE m.config.batchSize

\* variant of loadMoreLimit: only the first invocation is an initial one
loadMoreLimit_FirstCallOnly(m) ==
    IF m.fetchCount = 0 THEN m.config.initialBatchSize
    ELSE m.config.batchSize

\* loadMore(): the limit of the request
loadMoreLimit(m) ==
    IF m.state.isInitialized THEN m.config.batchSize
    ELSE m.config.initialBatchSize

\* loadMore(): the params of the request
loadMoreParams(m) ==
    [offset |-> m.offset,
     limit |-> loadMoreLimit(m),
     cursor |-> IF Truthy(m.currentCursor) THEN m.currentCursor ELSE Undefined]

\* variant of loadMore: the error of the previous attempt is not cleared
loadMore_KeepsError(m, fc) ==
    IF loadMoreGuard(m.state) THEN m
    ELSE LET m1 == updateState(m, [isLoading |-> TRUE])
             r == [id |-> m1.fetchCount + 1, params |-> loadMoreParams(m1)]
             m2 == [m1 EXCEPT !.fetchCount = r.id,
                              !.lastParams = r.params,
                              !.inflight = @ \cup {r}]
         IN IF fc.kind = "throw"
            THEN loadMoreCatch(resume(m2, r, Failure(fc.value)), fc.value)
            ELSE m2

\* loadMore() up to the await: fc is what fetchCallback does when invoked
loadMore(m, fc) ==
    IF loadMoreGuard(m.state) THEN m
    ELSE LET m1 == updateState(m, [isLoading |-> TRUE, error |-> Null])
             r == [id |-> m1.fetchCount + 1, params |-> loadMoreParams(m1)]
             m2 == [m1 EXCEPT !.fetchCount = r.id,
                              !.lastParams = r.params,
                              !.inflight = @ \cup {r}]
         IN IF fc.kind = "throw"
            THEN loadMoreCatch(resume(m2, r, Failure(fc.value)), fc.value)
            ELSE m2

\* variant of needsBuffer: the look-ahead depth is off by one
needsBuffer_Depth3(itemsRemaining, hasMore, isLoading) ==
    itemsRemaining <= 2 /\ hasMore /\ ~isLoading

\* goNext(): the look-ahead test
needsBuffer(itemsRemaining, hasMore, isLoading) ==
    itemsRemaining < 2 /\ hasMore /\ ~isLoading

\* variant of goNextAtEnd: the last buffered index is not the end
goNextAtEnd_Strict(currentIndex, items, hasMore) ==
    currentIndex > Len(items) - 1 /\ ~hasMore

\* goNext(): the end of the list
goNextAtEnd(currentIndex, items, hasMore) ==
    currentIndex >= Len(items) - 1 /\ ~hasMore

\* variant of goNextOutOfBounds: the pending fetch is not looked at
goNextOutOfBounds_Never(nextIndex, items, isLoading) == FALSE

\* goNext(): the next index is not buffered and a fetch is pending
goNextOutOfBounds(nextIndex, items, isLoading) ==
    nextIndex > Len(items) - 1 /\ isLoading

\* variant of goNext: the look-ahead fetch is started before the index moves
goNext_FetchesFirst(m, fc) ==
    LET currentIndex == m.state.currentIndex
        items == m.state.items
        hasMore == m.state.hasMore
        isLoading == m.state.isLoading
        nextIndex == currentIndex + 1
        itemsRemaining == Len(items) - (nextIndex + 1)
    IN IF goNextAtEnd(currentIndex, items, hasMore) THEN m
       ELSE IF goNextOutOfBounds(nextIndex, items, isLoading) THEN m
       ELSE updateState(IF needsBuffer(itemsRemaining, hasMore, isLoading)
                        THEN loadMore(m, fc) ELSE m,
                        [currentIndex |-> nextIndex])

\* goNext()
goNext(m, fc) ==
    LET currentIndex == m.state.currentIndex
        items == m.state.items
        hasMore == m.state.hasMore
        isLoading == m.state.isLoading
        nextIndex == currentIndex + 1
    IN IF goNextAtEnd(currentIndex, items, hasMore) THEN m
       ELSE IF goNextOutOfBounds(nextIndex, items, isLoading) THEN m
       ELSE LET m1 == updateState(m, [currentIndex |-> nextIndex])
                itemsRemaining == Len(items) - (nextIndex + 1)
            IN IF needsBuffer(itemsRemaining, hasMore, isLoading)
               THEN loadMore(m1, fc)
               ELSE m1

\* variant of goPrevGuard: index 0 passes
goPrevGuard_AllowsZero(currentIndex) == currentIndex >= 0

\* goPrev(): the guard
goPrevGuard(currentIndex) == currentIndex > 0

\* variant of goPrev: going back also dismisses the error
goPrev_ClearsError(m) ==
    IF goPrevGuard(m.state.currentIndex)
    THEN updateState(m, [currentIndex |-> m.state.currentIndex - 1, error |-> Null])
    ELSE m

\* goPrev()
goPrev(m) ==
    IF goPrevGuard(m.state.currentIndex)
    THEN updateState(m, [currentIndex |-> m.state.currentIndex - 1])
    ELSE m

\* variant of subscribe: the listeners are kept in an array
subscribe_Pushes(m, listener) ==
    register(chronicle([m EXCEPT !.listeners = Append(@, listener)],
                       [m.subscription EXCEPT ![listener] = "active"],
                       IF m.lifecycle = "alive" THEN "alive" ELSE "reused"),
             [m.registrations EXCEPT ![listener] = @ + 1])

\* subscribe(listener): this.listeners.add(listener)
subscribe(m, listener) ==
    register(chronicle([m EXCEPT !.listeners = IF listener \in Members(@) THEN @
                                               ELSE Append(@, listener)],
                       [m.subscription EXCEPT ![listener] = "active"],
                       IF m.lifecycle = "alive" THEN "alive" ELSE "reused"),
             [m.registrations EXCEPT ![listener] = @ + 1])

\* the histories of a call of destroy()
destroyed(m) ==
    register(chronicle(m,
                       [l \in DOMAIN m.subscription |->
                           IF m.subscription[l] = "active" THEN "detached"
                           ELSE m.subscription[l]],
                       IF m.inflight = {} THEN "destroyed" ELSE "destroyedMidFetch"),
             [l \in DOMAIN m.registrations |-> 0])

\* variant of destroy: the listeners stay registered
destroy_KeepsListeners(m) == destroyed(m)

\* destroy(): this.listeners.clear()
destroy(m) == [destroyed(m) EXCEPT !.listeners = <<>>]

----------------------------------------------------------------------------
(* The state machine *)

\* the listener of the hook: (newState) => { setState(newState) }
HookListener == 1

\* the broadcasts of a run on m that reached the listener of the hook
told(m) == {j \in 1..Len(m.round) : HookListener \in Members(m.round[j].to)}

\* the hook after a run on m: the state of the component is the last
\* snapshot its listener gave to setState
setState(h, m) ==
    IF h.phase = "none" \/ told(m) = {} THEN h
    ELSE [h EXCEPT !.state = m.round[CHOOSE j \in told(m) :
                                         \A k \in told(m) : k <= j].snapshot]

\* no swipe: the component does not use useSwipe
NoSwipe == [enableSwipe |-> FALSE]

\* useSwipe: the effect that depends on currentIndex; the state goes back
\* to its initial values, and the container, rendered with transition
\* none, drops a transition that was running
resetEffect(sw) ==
    [sw EXCEPT !.offset = 0, !.isDragging = FALSE, !.isSnapping = FALSE,
               !.snapDirection = "null", !.transition = FALSE]

\* useSwipe when the component renders with the state of hook h2 after it
\* had rendered with that of h
rendered(sw, h, h2) ==
    IF ~sw.enableSwipe THEN sw
    ELSE IF h2.state.currentIndex # h.state.currentIndex THEN resetEffect(sw)
    ELSE sw

\* useSwipe when a handler starts: it has called no callback and received
\* no pointer event yet
quiet(sw) ==
    IF ~sw.enableSwipe THEN sw ELSE [sw EXCEPT !.called = <<>>, !.event = <<>>]

\* useSwipe when a handler has received the pointer event e
received(sw, e) == [sw EXCEPT !.event = <<e>>]

\* the fields and the histories of the controller after a run on m
Store(m) ==
    /\ state' = m.state
    /\ offset' = m.offset
    /\ currentCursor' = m.currentCursor
    /\ listeners' = m.listeners
    /\ inflight' = m.inflight
    /\ fetchCount' = m.fetchCount
    /\ lastParams' = m.lastParams
    /\ delivered' = m.delivered
    /\ exhausted' = m.exhausted
    /\ lastNextCursor' = m.lastNextCursor
    /\ lastToken' = m.lastToken
    /\ lastOutcome' = m.lastOutcome
    /\ succeeded' = m.succeeded
    /\ subscription' = m.subscription
    /\ lifecycle' = m.lifecycle
    /\ registrations' = m.registrations
    /\ round' = m.round
    /\ handled' = m.handled

\* the fields of the controller after a method or a continuation ran on m:
\* the configuration is the one of the constructor
Commit(m) ==
    /\ Store(m)
    /\ hook' = setState(hook, m)
    /\ swipe' = rendered(quiet(swipe), hook, hook')
    /\ UNCHANGED <<world, options, config>>

\* new FastContentsCore(options)
Constructed ==
    /\ options \in world.configs
    /\ config = constructorConfig(options)
    /\ state = InitialState
    /\ offset = 0
    /\ currentCursor = Undefined
    /\ listeners = <<>>
    /\ inflight = {}
    /\ fetchCount = 0
    /\ lastParams = NoParams
    /\ delivered = <<>>
    /\ exhausted = FALSE
    /\ lastNextCursor = Undefined
    /\ lastToken = Undefined
    /\ lastOutcome = "none"
    /\ succeeded = FALSE
    /\ subscription = [l \in ListenerIds |-> "none"]
    /\ lifecycle = "alive"
    /\ registrations = [l \in ListenerIds |-> 0]
    /\ round = <<>>
    /\ handled = <<>>
    /\ op = "new"

\* no component: the controller is used directly
NoHook == [phase |-> "none"]

Init ==
    /\ world = Feed
    /\ Constructed
    /\ hook = NoHook
    /\ swipe = NoSwipe

InitAudience ==
    /\ world = Audience
    /\ Constructed
    /\ hook = NoHook
    /\ swipe = NoSwipe

InitRegistry ==
    /\ world = Registry
    /\ Constructed
    /\ hook = NoHook
    /\ swipe = NoSwipe

\* a call of loadMore()
LoadMore ==
    \E fc \in FetchBehaviours : \E script \in Scripts :
        LET m == loadMore(Listening(script), fc)
        IN /\ m.fetchCount <= world.maxFetches
           /\ op' = "loadMore"
           /\ Commit(m)

\* a call of goNext()
GoNext ==
    \E fc \in FetchBehaviours : \E script \in Scripts :
        LET m == goNext(Listening(script), fc)
        IN /\ m.fetchCount <= world.maxFetches
           /\ op' = "goNext"
           /\ Commit(m)

\* a call of goPrev()
GoPrev ==
    \E script \in Scripts :
        /\ op' = "goPrev"
        /\ Commit(goPrev(Listening(script)))

\* the promise of a pending fetch is fulfilled and loadMore resumes
FetchFulfilled ==
    \E r \in inflight : \E result \in FetchResults(Len(delivered)) :
        \E script \in Scripts :
            /\ op' = "fulfilled"
            /\ Commit(loadMoreFulfilled(resume(Listening(script), r, Fulfilment(result)),
                                        result))

\* the promise of a pending fetch is rejected and loadMore resumes
FetchRejected ==
    \E r \in inflight : \E v \in world.thrown : \E script \in Scripts :
        /\ op' = "rejected"
        /\ Commit(loadMoreCatch(resume(Listening(script), r, Failure(v)), v))

\* a call of subscribe(l)
Subscribe ==
    \E l \in ListenerIds :
        /\ registrations[l] < MaxSubscribes
        /\ op' = "subscribe"
        /\ Commit(subscribe(Machine, l))

\* a call of the function subscribe(l) returned
Unsubscribe ==
    \E l \in ListenerIds :
        /\ op' = "unsubscribe"
        /\ Commit(unsubscribe(Machine, l))

\* a call of destroy()
Destroy ==
    /\ op' = "destroy"
    /\ Commit(destroy(Machine))

\* a consumer mutates the snapshot it has just obtained
MutateSnapshot ==
    \E mutation \in Mutations :
        /\ op' = "mutate"
        /\ Commit(mutateSnapshot(Machine, mutation))

----------------------------------------------------------------------------
(* The hook useFastContent (packages/framework-react/src/useFastContent.ts): *)
(* a component that renders with props, creates the controller in an        *)
(* effect and hands every state it is notified of to setState.  The         *)
(* controller variables describe the controller coreRef.current holds; a    *)
(* controller the effect has cleaned up and replaced has no listener and    *)
(* no reference left and is not followed any further.                       *)

\* values of the scrollThreshold prop (in percent)
ScrollThresholds == {UndefinedNum, 80}

\* identities of the functions passed as the fetchCallback prop
Callbacks == {"f", "g"}

\* the config a component passes to useFastContent
Props ==
    [options : world.configs, scrollThreshold : ScrollThresholds,
     fetchCallback : Callbacks]

\* variant of effectDeps: the effect also depends on the fetchCallback prop
effectDeps_WithCallback(props) ==
    <<props.options.initialBatchSize, props.options.batchSize,
      props.scrollThreshold, props.fetchCallback>>

\* the dependency array of the effect that creates the controller
effectDeps(props) ==
    <<props.options.initialBatchSize, props.options.batchSize,
      props.scrollThreshold>>

\* new FastContentsCore(...) in the effect: coreRef.current is a new
\* controller, with histories of its own
construct(m, opts) ==
    [m EXCEPT !.config = constructorConfig(opts),
              !.state = InitialState,
              !.offset = 0,
              !.currentCursor = Undefined,
              !.listeners = <<>>,
              !.inflight = {},
              !.fetchCount = 0,
              !.lastParams = NoParams,
              !.delivered = <<>>,
              !.exhausted = FALSE,
              !.lastNextCursor = Undefined,
              !.lastToken = Undefined,
              !.lastOutcome = "none",
              !.succeeded = FALSE,
              !.subscription = [l \in DOMAIN @ |-> "none"],
              !.lifecycle = "alive",
              !.registrations = [l \in DOMAIN @ |-> 0]]

\* the body of the effect: create the controller, subscribe, load
effect(m, props, fc) ==
    loadMore(subscribe(construct(m, props.options), HookListener), fc)

\* variant of cleanup: the effect returns no cleanup function
cleanup_Nothing(m) == m

\* the cleanup function of the effect: unsubscribe(); core.destroy()
cleanup(m) == destroy(unsubscribe(m, HookListener))

\* the first render: useState and useRef give their initial values, no
\* effect has run and coreRef.current is null
Rendered ==
    \E scrollThreshold \in ScrollThresholds :
        hook = [phase |-> "rendered", coreRef |-> FALSE, cores |-> 0,
                state |-> [items |-> <<>>, currentIndex |-> 0, isLoading |-> FALSE,
                           isInitialized |-> FALSE, error |-> Null,
                           hasMore |-> TRUE],
                props |-> [options |-> options, scrollThreshold |-> scrollThreshold,
                           fetchCallback |-> "f"],
                saved |-> "f"]

InitHook ==
    /\ world = Screen
    /\ Constructed
    /\ Rendered
    /\ swipe = NoSwipe

\* the effects of the first render run
Mount ==
    \E fc \in FetchBehaviours :
        LET m == effect(Machine, hook.props, fc)
        IN /\ hook.phase = "rendered"
           /\ op' = "mount"
           /\ Store(m)
           /\ options' = hook.props.options
           /\ config' = m.config
           /\ hook' = [setState(hook, m) EXCEPT !.phase = "mounted",
                                                !.coreRef = TRUE,
                                                !.cores = @ + 1]
           /\ swipe' = rendered(quiet(swipe), hook, hook')
           /\ UNCHANGED world

\* the component renders again with props and its effects run: the saved
\* callback is replaced, and when a dependency has changed the controller
\* is cleaned up and a new one is created
Rerender ==
    \E props \in Props : \E fc \in FetchBehaviours :
        LET changed == effectDeps(props) # effectDeps(hook.props)
            m == IF changed THEN effect(cleanup(Machine), props, fc) ELSE Machine
        IN /\ hook.phase = "mounted"
           /\ changed => hook.cores < MaxCores
           /\ op' = "rerender"
           /\ Store(m)
           /\ options' = IF changed THEN props.options ELSE options
           /\ config' = m.config
           /\ hook' = [setState(hook, m) EXCEPT
                           !.props = props, !.saved = props.fetchCallback,
                           !.cores = IF changed THEN @ + 1 ELSE @]
           /\ swipe' = rendered(quiet(swipe), hook, hook')
           /\ UNCHANGED world

\* the component unmounts
Unmount ==
    /\ hook.phase = "mounted"
    /\ op' = "unmount"
    /\ Store(cleanup(Machine))
    /\ hook' = [setState(hook, cleanup(Machine)) EXCEPT !.phase = "unmounted"]
    /\ swipe' = quiet(swipe)
    /\ UNCHANGED <<world, options, config>>

\* loadMore of the hook: if (coreRef.current) await coreRef.current.loadMore()
HookLoadMore ==
    /\ hook.coreRef
    /\ LoadMore

\* goNext of the hook
HookGoNext ==
    /\ hook.coreRef
    /\ GoNext

\* goPrev of the hook
HookGoPrev ==
    /\ hook.coreRef
    /\ GoPrev

\* FastContent: the flags the component gives its controls, from the state
\* the hook returned
hasPrev(s) == s.currentIndex > 0

\* variant of hasNext: only a buffered item counts
hasNext_BufferOnly(s) == s.currentIndex < Len(s.items) - 1

hasNext(s) == s.currentIndex < Len(s.items) - 1 \/ s.hasMore

NextHook ==
    \/ Mount
    \/ Rerender
    \/ Unmount
    \/ HookLoadMore
    \/ HookGoNext
    \/ HookGoPrev
    \/ FetchFulfilled
    \/ FetchRejected

SpecHook == InitHook /\ [][NextHook]_vars

----------------------------------------------------------------------------
(* The hook useSwipe (useSwipe.ts) as the FastContent component wires it:   *)
(* onSwipeNext and onSwipePrev are goNext and goPrev of useFastContent,     *)
(* canGoNext and canGoPrev are hasNext and hasPrev, and currentIndex is the *)
(* one of the hook's state.  The component renders after every handler, so  *)
(* a handler sees the state the handler before it has set.  The container   *)
(* with the handlers exists while the component displays an item.  The      *)
(* wrapper is DefaultSwipeWrapper: a transition of its transform runs when  *)
(* the offset changes in a render with isSnapping, it ends with one         *)
(* transitionend event, and the content has no transition of its own.       *)

\* const DRAG_THRESHOLD = 5 (px)
DRAG_THRESHOLD == 5

\* the swipeThreshold prop of FastContent: its default
SwipeThreshold == 50

\* offsetWidth and offsetHeight of the container (px)
ContainerSize == 100

\* the orientation prop
Orientations == {"horizontal", "vertical"}

\* clientX and clientY of the pointer events
Points == [x : {-51, -50, -6, 0, 5, 6, 51}, y : {0, 6}]

\* startPos.current is null, or holds the position of a pointerdown:
\* the empty sequence, or the sequence of that position
NoPos == <<>>

\* Math.abs
Abs(n) == IF n < 0 THEN -n ELSE n

\* useSwipe at the first render
SwipeIdle(orientation) ==
    [enableSwipe |-> TRUE, orientation |-> orientation,
     offset |-> 0, isDragging |-> FALSE, isSnapping |-> FALSE,
     startPos |-> NoPos, snapDirection |-> "null",
     captured |-> FALSE, transition |-> FALSE, called |-> <<>>, event |-> <<>>]

\* FastContent: the container with the handlers is rendered
Displayed(h) ==
    /\ h.phase = "mounted"
    /\ ~(~h.state.isInitialized /\ h.state.isLoading)
    /\ h.state.currentIndex + 1 <= Len(h.state.items)

\* handlePointerDown
handlePointerDown(sw, e) ==
    IF sw.isSnapping THEN sw
    ELSE [sw EXCEPT !.startPos = <<e>>]

\* variant of dragStarts: any movement starts the drag
dragStarts_AnyMove(moveDistance) == moveDistance > 0

\* handlePointerMove: the movement is a drag
dragStarts(moveDistance) == moveDistance > DRAG_THRESHOLD

\* handlePointerMove
handlePointerMove(sw, e, canGoNext, canGoPrev) ==
    IF sw.startPos = NoPos THEN sw
    ELSE LET deltaX == e.x - sw.startPos[1].x
             deltaY == e.y - sw.startPos[1].y
             delta == IF sw.orientation = "horizontal" THEN deltaX ELSE deltaY
             moveDistance == Abs(IF sw.orientation = "horizontal"
                                 THEN deltaX ELSE deltaY)
             constrained == IF ~canGoNext /\ delta < 0 THEN 0
                            ELSE IF ~canGoPrev /\ delta > 0 THEN 0
                            ELSE delta
         IN IF sw.isDragging
            THEN [sw EXCEPT !.offset = constrained]
            ELSE IF dragStarts(moveDistance)
            THEN [sw EXCEPT !.isDragging = TRUE, !.captured = TRUE,
                            !.offset = constrained]
            ELSE sw

\* handlePointerUp: setIsSnapping(true); setOffset(target);
\* snapDirection.current = direction.  The transform of the wrapper
\* changes in a render with isSnapping when target is not the offset
snap(sw, target, direction) ==
    [sw EXCEPT !.isSnapping = TRUE, !.offset = target,
               !.snapDirection = direction,
               !.transition = @ \/ target # sw.offset]

\* variant of swipeMet: the threshold itself is a swipe
swipeMet_Inclusive(absOffset) == absOffset >= SwipeThreshold

\* handlePointerUp: the threshold is met
swipeMet(absOffset) == absOffset > SwipeThreshold

\* handlePointerUp (also the handler of pointercancel)
handlePointerUp(sw, canGoNext, canGoPrev) ==
    IF sw.startPos = NoPos THEN sw
    ELSE IF ~sw.isDragging THEN [sw EXCEPT !.startPos = NoPos]
    ELSE LET released == [sw EXCEPT !.isDragging = FALSE, !.captured = FALSE,
                                    !.startPos = NoPos]
             absOffset == Abs(sw.offset)
             isNext == sw.offset < 0
         IN IF swipeMet(absOffset) /\ isNext /\ canGoNext
            THEN snap(released, -ContainerSize, "next")
            ELSE IF swipeMet(absOffset) /\ ~isNext /\ canGoPrev
            THEN snap(released, ContainerSize, "prev")
            ELSE snap(released, 0, "reset")

\* handleTransitionEnd, up to the callback it calls
handleTransitionEnd(sw) ==
    IF ~sw.isSnapping THEN sw
    ELSE IF sw.snapDirection = "next" THEN [sw EXCEPT !.called = Append(@, "next")]
    ELSE IF sw.snapDirection = "prev" THEN [sw EXCEPT !.called = Append(@, "prev")]
    ELSE [sw EXCEPT !.isSnapping = FALSE]

\* the first render of a FastContent with enableSwipe
InitSwipe ==
    /\ world = Gallery
    /\ Constructed
    /\ Rendered
    /\ hook.props.scrollThreshold = UndefinedNum
    /\ \E orientation \in Orientations : swipe = SwipeIdle(orientation)

\* a pointerdown event on the container
PointerDown ==
    \E e \in Points :
        /\ Displayed(hook)
        /\ op' = "pointerDown"
        /\ swipe' = handlePointerDown(received(quiet(swipe), e), e)
        /\ Store(Machine)
        /\ UNCHANGED <<world, options, config, hook>>

\* a pointermove event on the container
PointerMove ==
    \E e \in Points :
        /\ Displayed(hook)
        /\ op' = "pointerMove"
        /\ swipe' = handlePointerMove(received(quiet(swipe), e), e,
                                      hasNext(hook.state), hasPrev(hook.state))
        /\ Store(Machine)
        /\ UNCHANGED <<world, options, config, hook>>

\* a pointerup or pointercancel event on the container
PointerUp ==
    /\ Displayed(hook)
    /\ op' = "pointerUp"
    /\ swipe' = handlePointerUp(quiet(swipe), hasNext(hook.state), hasPrev(hook.state))
    /\ Store(Machine)
    /\ UNCHANGED <<world, options, config, hook>>

\* the transitionend event of the running transition: handleTransitionEnd
\* and, through the hook, goNext or goPrev of the controller
TransitionEnd ==
    \E fc \in FetchBehaviours :
        LET sw == handleTransitionEnd(quiet(swipe))
            m == IF sw.called = <<"next">> THEN goNext(Machine, fc)
                 ELSE IF sw.called = <<"prev">> THEN goPrev(Machine)
                 ELSE Machine
        IN /\ swipe.transition
           /\ m.fetchCount <= world.maxFetches
           /\ op' = "transitionEnd"
           /\ Store(m)
           /\ hook' = setState(hook, m)
           /\ swipe' = rendered([sw EXCEPT !.transition = FALSE], hook, hook')
           /\ UNCHANGED <<world, options, config>>

NextSwipe ==
    \/ Mount
    \/ HookGoNext
    \/ HookGoPrev
    \/ FetchFulfilled
    \/ FetchRejected
    \/ PointerDown
    \/ PointerMove
    \/ PointerUp
    \/ TransitionEnd

SpecSwipe == InitSwipe /\ [][NextSwipe]_vars

----------------------------------------------------------------------------

\* class FastContentsCore: the methods a consumer can call on a controller
\* (notifyListeners and updateState are private)
Methods == {"getState", "subscribe", "loadMore", "goNext", "goPrev", "destroy"}

\* class FastContentsCore: the fields of an instance
Fields == {"state", "config", "listeners", "currentCursor", "offset"}

\* the value of the expression core[name] for a controller core: a field
\* of the instance, a method of the class, or undefined
member(m, name) ==
    IF name \in Fields THEN m[name]
    ELSE IF name \in Methods THEN "function"
    ELSE Undefined

Next ==
    \/ LoadMore
    \/ GoNext
    \/ GoPrev
    \/ FetchFulfilled
    \/ FetchRejected
    \/ Subscribe
    \/ Unsubscribe
    \/ Destroy

Spec == Init /\ [][Next]_vars

SpecAudience == InitAudience /\ [][Next]_vars

SpecRegistry == InitRegistry /\ [][Next]_vars

\* the controller with consumers that also write to the snapshots they get
NextConsumer ==
    \/ Next
    \/ MutateSnapshot

SpecConsumer == InitAudience /\ [][NextConsumer]_vars

----------------------------------------------------------------------------
(* Properties *)

\* the last action called a method that may fetch
CalledFetcher == op \in {"loadMore", "goNext"}

\* the step invokes fetchCallback
Fetches == fetchCount' > fetchCount

\* the params of the invocation the step makes
NewCall == lastParams'

\* C1: at most one fetchCallback invocation is outstanding at any time, and
\* a loadMore or goNext call made while one is outstanding invokes
\* fetchCallback zero times (two loadMore calls before the first resolves:
\* one invocation).
C1_AtMostOneFetchInFlight ==
    /\ [](Cardinality(inflight) <= 1)
    /\ [][(CalledFetcher' /\ inflight # {}) => ~Fetches]_vars

\* a second loadMore was called while the first fetch was pending
C1_Witness ==
    /\ op = "loadMore"
    /\ round = <<>>
    /\ inflight # {}
    /\ fetchCount = 1

\* C2: once a successful response has set hasMore to false, no later
\* loadMore or goNext call invokes fetchCallback.
C2_NoFetchAfterExhaustion == [][exhausted => ~Fetches]_vars

\* loadMore or goNext was called after exhaustion, with fetches to spare
C2_Witness ==
    /\ exhausted
    /\ CalledFetcher
    /\ fetchCount < MaxFetches

\* C3: the offset passed to each fetchCallback invocation is the number of
\* items appended by all earlier successful fetches, which is items.length
\* at the moment of the call.
C3_OffsetIsItemsAppended ==
    [][Fetches => /\ NewCall.offset = Len(delivered)
                  /\ NewCall.offset = Len(state.items)]_vars

\* a fetch was issued after a failed fetch and a one-item page whose limit
\* was larger
C3_Witness ==
    /\ fetchCount = 3
    /\ inflight # {}
    /\ lastParams.offset = 1
    /\ lastParams.limit > 1

\* a is a prefix of b
IsPrefix(a, b) == Len(a) <= Len(b) /\ SubSeq(b, 1, Len(a)) = a

\* C4: items is the concatenation, in completion order, of the items of
\* all successful responses, and the items of a state are a prefix of the
\* items of every later state.
C4_ItemsAreResponsesInOrder ==
    /\ [](state.items = delivered)
    /\ [][IsPrefix(state.items, state'.items)]_vars

\* a second non-empty page was appended behind a first one
C4_Witness ==
    /\ op = "fulfilled"
    /\ fetchCount >= 2
    /\ Len(state.items) >= 3
    /\ state.items[3] = 3

\* the step handles a rejected or throwing fetchCallback
HandlesFailure == \E i \in 1..Len(handled') : ~handled'[i].ok

\* C5: handling a failed fetch leaves items, offset, cursor, hasMore and
\* isInitialized as they were before the failed loadMore.
C5_FailureKeepsPagination ==
    [][HandlesFailure => /\ state'.items = state.items
                         /\ offset' = offset
                         /\ currentCursor' = currentCursor
                         /\ state'.hasMore = state.hasMore
                         /\ state'.isInitialized = state.isInitialized]_vars

\* the first fetch was rejected after loadMore: the error is stored and the
\* controller is still not initialized
C5_Witness ==
    /\ op = "rejected"
    /\ state.error = ErrorX
    /\ ~state.isLoading
    /\ ~state.isInitialized
    /\ offset = 0

\* C6: isLoading is true exactly while a fetchCallback invocation is
\* outstanding.
C6_LoadingIffFetchInFlight == state.isLoading <=> inflight # {}

\* a second fetch is outstanding after the first was handled
C6_Witness ==
    /\ state.isLoading
    /\ inflight # {}
    /\ fetchCount = 2

\* the step called goNext()
CallsGoNext == op' = "goNext"

\* C7: during a pending fetch a goNext whose target index is not buffered
\* changes nothing and notifies nobody, and a goNext to a buffered index
\* advances.
C7_GoNextWaitsForBuffer ==
    [][(CallsGoNext /\ state.isLoading) =>
          IF state.currentIndex + 1 > Len(state.items) - 1
          THEN state' = state /\ round' = <<>>
          ELSE state'.currentIndex = state.currentIndex + 1]_vars

\* goNext was called at the last buffered item while the prefetch was pending
C7_Witness ==
    /\ op = "goNext"
    /\ round = <<>>
    /\ state.isLoading
    /\ state.currentIndex > 0
    /\ state.currentIndex = Len(state.items) - 1

\* C8: a goNext that advances to index i fetches iff fewer than 2 buffered
\* items lie after i, hasMore is true and no fetch is in flight.
C8_PrefetchLookAhead ==
    [][(CallsGoNext /\ state'.currentIndex = state.currentIndex + 1) =>
          (Fetches <=> /\ Len(state.items) - (state'.currentIndex + 1) < 2
                       /\ state.hasMore
                       /\ ~state.isLoading)]_vars

\* goNext advanced with 2 buffered items ahead and did not fetch although
\* hasMore is true, nothing is pending and fetches are to spare
C8_Witness ==
    /\ op = "goNext"
    /\ Len(round) = 1
    /\ state.hasMore
    /\ ~state.isLoading
    /\ Len(state.items) - (state.currentIndex + 1) = 2
    /\ fetchCount < MaxFetches

\* C9: goNext at the last buffered index with hasMore false changes no
\* field, notifies no listener and invokes no fetch.
C9_GoNextAtEndIsNoOp ==
    [][(CallsGoNext /\ state.currentIndex = Len(state.items) - 1
                    /\ ~state.hasMore) =>
          /\ state' = state
          /\ offset' = offset
          /\ currentCursor' = currentCursor
          /\ round' = <<>>
          /\ ~Fetches]_vars

\* goNext was called at the last item of an exhausted list
C9_Witness ==
    /\ op = "goNext"
    /\ round = <<>>
    /\ ~state.hasMore
    /\ Len(state.items) > 1
    /\ state.currentIndex = Len(state.items) - 1

\* C10: goPrev at index 0 changes nothing and notifies nobody; at an index
\* above 0 it decreases currentIndex by 1; it never fetches and changes no
\* other field.
C10_GoPrev ==
    [][op' = "goPrev" =>
          /\ IF state.currentIndex = 0
             THEN state' = state /\ round' = <<>>
             ELSE state' = [state EXCEPT !.currentIndex = @ - 1]
          /\ offset' = offset
          /\ currentCursor' = currentCursor
          /\ inflight' = inflight
          /\ ~Fetches]_vars

\* goPrev stepped back while a fetch was pending
C10_Witness ==
    /\ op = "goPrev"
    /\ Len(round) = 1
    /\ round[1].snapshot.currentIndex = state.currentIndex
    /\ state.isLoading

\* C11 as stated: every request carries the nextCursor the latest response
\* that had one supplied (none before the first such response).
C11_CursorIsLastNextCursor == [][Fetches => NewCall.cursor = lastNextCursor]_vars

\* C11, amended: a request carries no cursor until a fulfilled response has
\* supplied a non-empty nextCursor, and from then on the latest non-empty
\* nextCursor supplied, also after responses that omit nextCursor or carry
\* an empty one.
C11_CursorIsLastToken == [][Fetches => NewCall.cursor = lastToken]_vars

\* the third request carries "c1" although a later response carried an
\* empty nextCursor, and the offset has advanced
C11_Witness ==
    /\ fetchCount = 3
    /\ inflight # {}
    /\ lastParams.cursor = "c1"
    /\ lastNextCursor = ""
    /\ lastParams.offset > 0

\* a batch size of the FastContentsConfig, 3 when it is not configured
Configured(n) == IF n = UndefinedNum THEN 3 ELSE n

C13_RetryRepeatsRequest ==
    /\ [][(Fetches /\ lastOutcome = "rejected") =>
              /\ NewCall = lastParams
              /\ inflight' # {} => (state'.error = Null /\ state'.isLoading)]_vars
    /\ [][op' = "fulfilled" => state'.error = Null]_vars

\* loadMore retried a failed request for the items behind the first page
C13_Witness ==
    /\ op = "loadMore"
    /\ lastOutcome = "rejected"
    /\ inflight # {}
    /\ fetchCount = 3
    /\ lastParams.offset = 2
    /\ lastParams.cursor = "c1"

\* the failure handled by the step
HandledFailure == handled'[Len(handled')].value

\* the Error a caught value is stored as: the Error itself, or a new Error
\* whose message is the string of the value
StoredError(v) == IF v.isError THEN v ELSE [isError |-> TRUE, message |-> v.message]

\* C14: when fetchCallback rejects or throws, error becomes the failure,
\* isLoading becomes false and the listeners are notified of that state; a
\* fetch is only issued by a call of loadMore or goNext, and loadMore called
\* after a failure does fetch.
C14_FailureIsStoredAndRetryable ==
    /\ [][HandlesFailure =>
              /\ state'.error = StoredError(HandledFailure)
              /\ ~state'.isLoading
              /\ round'[Len(round')].snapshot = state'
              /\ Members(listeners') \subseteq Members(round'[Len(round')].to)]_vars
    /\ [][Fetches => CalledFetcher']_vars
    /\ [][(op' = "loadMore" /\ lastOutcome = "rejected" /\ inflight = {}) =>
              Fetches]_vars

\* a rejection with a value that is not an Error was stored and broadcast
C14_Witness ==
    /\ op = "rejected"
    /\ state.error = [isError |-> TRUE, message |-> "boom"]
    /\ listeners # <<>>
    /\ Len(round) = 1
    /\ round[1].snapshot = state
    /\ round[1].to = listeners

\* C15: once the controller is initialized and items is not empty,
\* currentIndex points at a buffered item.
C15_IndexPointsAtItem ==
    (state.isInitialized /\ Len(state.items) > 0) =>
        (0 <= state.currentIndex /\ state.currentIndex <= Len(state.items) - 1)

\* C16: while hasMore is false and items is not empty, currentIndex does
\* not exceed the last buffered index.
C16_ClampedWhenExhausted ==
    (~state.hasMore /\ Len(state.items) > 0) =>
        state.currentIndex <= Len(state.items) - 1

\* C17: every index below currentIndex refers to a buffered item.
C17_IndicesBelowAreBuffered == state.currentIndex <= Len(state.items)

\* the listeners the step invoked
Invoked == UNION {Members(round'[j].to) : j \in 1..Len(round')}

\* during the step, listener l was unsubscribed by a listener before the
\* p-th invocation of the j-th broadcast
UnsubscribedBefore(l, j, p) ==
    \E i \in 1..j : \E u \in 1..Len(round'[i].unsubscribed) :
        /\ round'[i].unsubscribed[u].victim = l
        /\ (i < j \/ round'[i].unsubscribed[u].after < p)

\* C18: a listener whose unsubscribe function has been called (by the
\* consumer between two operations, also while a fetch is in flight, or by a
\* listener during a broadcast) is not invoked afterwards, until it is
\* subscribed again.
C18_UnsubscribedIsSilent ==
    [][\A j \in 1..Len(round') : \A p \in 1..Len(round'[j].to) :
           LET l == round'[j].to[p]
           IN /\ subscription[l] # "cancelled"
              /\ ~UnsubscribedBefore(l, j, p)]_vars

\* a fetch was fulfilled; in the broadcast, listener 1 unsubscribed listener 2,
\* whose turn would have come next, and listener 2 was not invoked
C18_Witness ==
    /\ op = "fulfilled"
    /\ Len(round) = 1
    /\ round[1].to = <<1>>
    /\ round[1].unsubscribed = <<[victim |-> 2, after |-> 1]>>
    /\ subscription[2] = "cancelled"
    /\ listeners = <<1>>

\* C19 as stated: once destroy() has been called, no listener is invoked,
\* whatever is called afterwards.
C19_SilentForEver == [][lifecycle # "alive" => Invoked = {}]_vars

\* C19: after destroy() no listener is invoked until subscribe is called
\* again, and a listener that destroy() detached is not invoked unless it
\* subscribes again.
C19_DetachedIsSilent ==
    [][/\ lifecycle \in {"destroyed", "destroyedMidFetch"} => Invoked = {}
       /\ \A l \in Invoked : subscription[l] # "detached"]_vars

\* after destroy() detached a listener, goNext() moved the index and issued
\* a fetch, and both broadcasts reached nobody
C19_Witness ==
    /\ op = "goNext"
    /\ lifecycle = "destroyed"
    /\ \E l \in ListenerIds : subscription[l] = "detached"
    /\ Len(round) = 2
    /\ round[1].to = <<>>
    /\ round[2].to = <<>>
    /\ inflight # {}

\* the step handles the settlement of a fetch that was in flight when
\* destroy() was called (no subscribe was called since)
LateSettlement == op' \in {"fulfilled", "rejected"} /\ lifecycle = "destroyedMidFetch"

\* C20 as stated: the settlement of a fetch that was in flight when destroy()
\* was called changes neither the state, offset nor cursor, and invokes no
\* listener.
C20_LateResultIsDropped ==
    [][LateSettlement =>
           /\ state' = state
           /\ offset' = offset
           /\ currentCursor' = currentCursor
           /\ Invoked = {}]_vars

\* C20: the settlement of a fetch that was in flight when destroy() was
\* called is applied as any other settlement (the items are appended, offset,
\* cursor, hasMore, isInitialized are updated, or the error is stored, and
\* isLoading becomes false); it is broadcast to no listener.
C20_LateResultIsApplied ==
    [][LateSettlement =>
           /\ ~state'.isLoading
           /\ op' = "fulfilled" =>
                  LET result == handled'[1].result
                  IN /\ state' = [state EXCEPT !.items = @ \o result.items,
                                               !.hasMore = result.hasMore,
                                               !.isLoading = FALSE,
                                               !.isInitialized = TRUE]
                     /\ offset' = offset + Len(result.items)
                     /\ currentCursor' = IF result.nextCursor \in {Undefined, ""}
                                         THEN currentCursor ELSE result.nextCursor
           /\ op' = "rejected" =>
                  /\ state' = [state EXCEPT !.isLoading = FALSE,
                                            !.error = StoredError(handled'[1].value)]
                  /\ offset' = offset
                  /\ currentCursor' = currentCursor
           /\ Len(round') = 1
           /\ round'[1].snapshot = state'
           /\ Invoked = {}]_vars

\* destroy() was called with a listener registered and a fetch in flight;
\* the fetch was then fulfilled: its item is in the buffer and nobody was told
C20_Witness ==
    /\ op = "fulfilled"
    /\ handled[1].late
    /\ \E l \in ListenerIds : subscription[l] = "detached"
    /\ state.items # <<>>
    /\ offset = Len(state.items)
    /\ ~state.isLoading
    /\ round[1].to = <<>>

\* the number of state transitions of the step: an index change, a fetch
\* start, and the settlements handled
Transitions ==
    (IF state'.currentIndex # state.currentIndex THEN 1 ELSE 0)
    + (IF Fetches THEN 1 ELSE 0) + Len(handled')

\* the step made one broadcast per transition, each of a state that differs
\* from the one before, the last one of the state the step ends in
BroadcastPerTransition ==
    /\ Len(round') = Transitions
    /\ round' # <<>> => round'[Len(round')].snapshot = state'
    /\ \A j \in 1..Len(round') :
           round'[j].snapshot # (IF j = 1 THEN state ELSE round'[j - 1].snapshot)

\* the listeners subscribed when the j-th transition of the step happened
SubscribedAt(j) ==
    Members(listeners)
    \ UNION {{round'[i].unsubscribed[u].victim : u \in 1..Len(round'[i].unsubscribed)} :
                 i \in 1..(j - 1)}

\* no element occurs twice in seq
NoRepeat(seq) == \A a, b \in 1..Len(seq) : a # b => seq[a] # seq[b]

\* C21 as stated: every transition is broadcast once, and the broadcast
\* invokes each listener subscribed when the transition happened exactly once
\* with the state after the transition; a call without transition invokes
\* nobody.
C21_EverySubscriberOnce ==
    [][/\ BroadcastPerTransition
       /\ \A j \in 1..Len(round') :
              /\ NoRepeat(round'[j].to)
              /\ Members(round'[j].to) = SubscribedAt(j)]_vars

\* C21: every transition is broadcast once, with the state after the
\* transition; the broadcast invokes, exactly once, each listener subscribed
\* when the transition happened, except a listener that another listener
\* unsubscribed during that broadcast before its turn; a call without
\* transition invokes nobody.
C21_EveryRemainingSubscriberOnce ==
    [][/\ BroadcastPerTransition
       /\ \A j \in 1..Len(round') :
              /\ NoRepeat(round'[j].to)
              /\ Members(round'[j].to) \subseteq SubscribedAt(j)
              /\ \A l \in SubscribedAt(j) \ Members(round'[j].to) :
                     \E u \in 1..Len(round'[j].unsubscribed) :
                         round'[j].unsubscribed[u].victim = l]_vars

\* goNext() made two transitions; listener 1 unsubscribed listener 2 during
\* the first broadcast, after listener 2 had its turn: both heard of the new
\* index, listener 1 alone heard of the fetch
C21_Witness ==
    /\ op = "goNext"
    /\ Len(round) = 2
    /\ round[1].to = <<2, 1>>
    /\ round[2].to = <<1>>
    /\ round[1].snapshot.currentIndex = state.currentIndex
    /\ ~round[1].snapshot.isLoading
    /\ round[2].snapshot = state
    /\ state.isLoading

\* C22: a goNext() that starts a look-ahead fetch first moves the index and
\* broadcasts the new index, while isLoading is false and before
\* fetchCallback is invoked; then it broadcasts isLoading and fetches.  The
\* index stays moved when that fetch fails at once, and no settlement of a
\* fetch changes the index.
C22_IndexMovesBeforeFetch ==
    /\ [][(op' = "goNext" /\ Fetches) =>
              /\ Len(round') >= 2
              /\ round'[1].snapshot = [state EXCEPT !.currentIndex = @ + 1]
              /\ ~round'[1].snapshot.isLoading
              /\ round'[1].calls = fetchCount
              /\ round'[2].snapshot.isLoading
              /\ state'.currentIndex = state.currentIndex + 1]_vars
    /\ [][op' \in {"fulfilled", "rejected"} =>
              state'.currentIndex = state.currentIndex]_vars

\* goNext() moved the index and broadcast it before fetchCallback was
\* invoked; fetchCallback threw, and the index stayed where goNext() put it
C22_Witness ==
    /\ op = "goNext"
    /\ Len(round) = 3
    /\ handled # <<>>
    /\ round[1].calls = fetchCount - 1
    /\ round[1].snapshot.currentIndex = state.currentIndex
    /\ state.currentIndex > 0
    /\ state.error # Null

\* C23: a loadMore() called while isLoading is false and hasMore is true
\* invokes fetchCallback exactly once; called while isLoading is true or
\* hasMore is false it invokes fetchCallback not at all, changes nothing and
\* notifies nobody.
C23_LoadMoreFetchesOnceOrNothing ==
    [][op' = "loadMore" =>
           IF ~state.isLoading /\ state.hasMore
           THEN fetchCount' = fetchCount + 1
           ELSE /\ fetchCount' = fetchCount
                /\ state' = state
                /\ offset' = offset
                /\ currentCursor' = currentCursor
                /\ round' = <<>>]_vars

\* loadMore() was called after the server had reported the end: nothing
\* happened
C23_Witness ==
    /\ op = "loadMore"
    /\ ~state.hasMore
    /\ ~state.isLoading
    /\ fetchCount > 0
    /\ round = <<>>

\* C24: error is null while isLoading is true, and the broadcast that
\* precedes each fetchCallback invocation shows isLoading with a null error;
\* an error that is not null is the failure of the fetch that settled last,
\* no fetch having started since: it is stored when that failure is handled
\* and steps that handle no failure leave it as it is or clear it.
C24_ErrorIsLastFailure ==
    /\ [](state.isLoading => state.error = Null)
    /\ [](state.error # Null => (lastOutcome = "rejected" /\ inflight = {}))
    /\ [][Fetches =>
              \E j \in 1..Len(round') :
                  /\ round'[j].calls = fetchCount
                  /\ round'[j].snapshot.isLoading
                  /\ round'[j].snapshot.error = Null]_vars
    /\ [][state'.error # Null =>
              IF HandlesFailure THEN state'.error = StoredError(HandledFailure)
              ELSE state'.error = state.error]_vars

\* after a failed fetch, loadMore() started a new attempt and cleared the error
C24_Witness ==
    /\ op = "loadMore"
    /\ lastOutcome = "rejected"
    /\ state.isLoading
    /\ state.error = Null
    /\ inflight # {}

\* C25: isInitialized is true exactly when some fetch has been fulfilled,
\* whatever the number of its items: it is false before, a failure does not
\* set it, and it does not return to false.
C25_InitializedIffSucceeded == state.isInitialized <=> succeeded

\* the first fetch was fulfilled with no item: the controller is initialized
C25_Witness ==
    /\ op = "fulfilled"
    /\ fetchCount = 1
    /\ state.items = <<>>
    /\ state.isInitialized

\* C26 (as stated): only the first fetchCallback invocation of a controller
\* requests initialBatchSize; every later one requests batchSize, whatever
\* the outcome of the earlier ones.
C26_InitialSizeOnFirstCallOnly ==
    [][Fetches => NewCall.limit = IF fetchCount = 0
                                  THEN config.initialBatchSize
                                  ELSE config.batchSize]_vars

\* C26 (amended): every fetchCallback invocation made before a fetch of the
\* controller has succeeded (the first one and each retry after a failure)
\* requests initialBatchSize; every invocation made after a fetch has
\* succeeded requests batchSize.
C26_InitialSizeUntilFirstSuccess ==
    [][Fetches => NewCall.limit = IF succeeded
                                  THEN config.batchSize
                                  ELSE config.initialBatchSize]_vars

\* a retry after a failed first fetch has just requested initialBatchSize
C26_Witness ==
    /\ CalledFetcher
    /\ fetchCount = 2
    /\ ~succeeded
    /\ inflight # {}
    /\ config.initialBatchSize # config.batchSize
    /\ lastParams.limit = config.initialBatchSize

\* C27: the controller offers shouldLoadMore(scrollTop, scrollHeight,
\* clientHeight), a predicate on isLoading, hasMore and the scroll ratio
\* that changes no state.
C27_ShouldLoadMoreIsOffered == member(Machine, "shouldLoadMore") = "function"

\* C28: consumers only receive snapshots: whatever a consumer does to the
\* object returned by getState() or delivered to a listener, its items
\* array included, the state of the controller, and so what a later
\* getState() returns, does not change.
C28_SnapshotsAreCopies == [][op' = "mutate" => state' = state]_vars

\* C29: whenever hasMore is false, isLoading is false, error is null and
\* isInitialized is true; and hasMore, once false, is never true again.
C29_ExhaustedIsQuietAndFinal ==
    /\ [](~state.hasMore =>
              /\ ~state.isLoading
              /\ state.error = Null
              /\ state.isInitialized)
    /\ [][~state.hasMore => ~state'.hasMore]_vars

\* loadMore has been called on a controller that a second or later fetch
\* had left with hasMore false
C29_Witness ==
    /\ op = "loadMore"
    /\ ~state.hasMore
    /\ fetchCount >= 2
    /\ exhausted

\* C30: the fetch steps of loadMore (start, success, failure) leave
\* currentIndex alone, and the index step of goNext and goPrev changes
\* currentIndex only: goPrev changes no other field, the first state goNext
\* broadcasts differs from the state before in currentIndex only, and the
\* fetch goNext may start afterwards keeps the index goNext has set.
C30_FetchAndNavigationAreIndependent ==
    /\ [][op' \in {"loadMore", "fulfilled", "rejected"} =>
              state'.currentIndex = state.currentIndex]_vars
    /\ [][op' = "goPrev" =>
              state' = [state EXCEPT !.currentIndex = state'.currentIndex]]_vars
    /\ [][op' = "goNext" =>
              IF round' = <<>> THEN state' = state
              ELSE /\ round'[1].snapshot =
                          [state EXCEPT !.currentIndex = state.currentIndex + 1]
                   /\ \A j \in 1..Len(round') :
                          round'[j].snapshot.currentIndex = state.currentIndex + 1
                   /\ state'.currentIndex = state.currentIndex + 1]_vars

\* the second fetch has just succeeded while the display is on a later
\* item than the first
C30_Witness ==
    /\ op = "fulfilled"
    /\ fetchCount = 2
    /\ state.currentIndex >= 1
    /\ state.items # <<>>

\* C31: the listeners are a set of functions: a listener subscribed
\* several times is registered once and invoked once per broadcast, one
\* call of an unsubscribe function removes it whatever the number of its
\* subscriptions, so that it is not invoked any more, and an unsubscribe
\* call for a listener that is not registered changes nothing.
C31_ListenersAreASet ==
    /\ [](/\ NoRepeat(listeners)
          /\ \A l \in ListenerIds :
                 l \in Members(listeners) <=> registrations[l] > 0)
    /\ [][\A j \in 1..Len(round') : NoRepeat(round'[j].to)]_vars
    /\ [][Invoked \subseteq {l \in ListenerIds : registrations[l] > 0}]_vars
    /\ [][op' = "unsubscribe" =>
              /\ state' = state
              /\ round' = <<>>
              /\ \E l \in ListenerIds :
                     listeners' = SelectSeq(listeners, LAMBDA k : k # l)]_vars

\* a listener subscribed twice has just been told once of a fetched page
C31_Witness ==
    /\ op = "fulfilled"
    /\ \E l \in ListenerIds : registrations[l] = 2
    /\ Len(round) = 1
    /\ Len(round[1].to) = 1
    /\ registrations[round[1].to[1]] = 2

\* the props of a render differ from those of the render before in no
\* dependency of the effect that creates the controller
SameConfig ==
    /\ hook'.props.options = hook.props.options
    /\ hook'.props.scrollThreshold = hook.props.scrollThreshold

\* C32: when it mounts, useFastContent creates one controller and calls
\* fetchCallback once; a render with the same initialBatchSize, batchSize
\* and scrollThreshold, whatever its fetchCallback, creates no controller,
\* calls fetchCallback no more and leaves the controller as it is.
C32_OneControllerOneInitialFetch ==
    /\ [](hook.phase = "mounted" => hook.cores >= 1)
    /\ [][op' = "mount" =>
              /\ hook.cores = 0
              /\ hook'.cores = 1
              /\ fetchCount' = 1
              /\ NewCall.offset = 0]_vars
    /\ [][(op' = "rerender" /\ SameConfig) =>
              /\ hook'.cores = hook.cores
              /\ fetchCount' = fetchCount
              /\ UNCHANGED <<state, offset, currentCursor, listeners, inflight,
                             config, lifecycle>>]_vars

\* the component has rendered again with another fetchCallback and the
\* same sizes: there is still the controller of the mount and its one fetch
C32_Witness ==
    /\ op = "rerender"
    /\ hook.cores = 1
    /\ fetchCount = 1
    /\ hook.props.fetchCallback = "g"
    /\ hook.saved = "g"
    /\ listeners = <<HookListener>>

\* C33: once useFastContent has unmounted, its listener is not invoked any
\* more: not by the unmount itself, not when a fetch that was in flight at
\* the unmount is fulfilled or rejected, and not by a later call of a
\* function the hook returned.
C33_NoSetStateAfterUnmount ==
    /\ [][op' = "unmount" => (Invoked = {} /\ listeners' = <<>>)]_vars
    /\ [][hook.phase = "unmounted" => Invoked = {}]_vars

\* a fetch that was in flight when the component unmounted has just been
\* fulfilled and nobody was told
C33_Witness ==
    /\ hook.phase = "unmounted"
    /\ op = "fulfilled"
    /\ Len(handled) = 1
    /\ handled[1].late
    /\ Len(round) = 1
    /\ round[1].to = <<>>

\* C34: while the component is mounted the flags it derives from the
\* hook's state agree with the guards of the controller: hasNext is false
\* exactly where goNext stops at the end of the list, hasPrev is false
\* exactly where goPrev does nothing, and goNext and goPrev change
\* currentIndex (or anything else) only when their flag is true.
C34_FlagsAgreeWithGuards ==
    /\ [](hook.phase = "mounted" =>
              /\ hook.state = state
              /\ ~hasNext(hook.state)
                     <=> goNextAtEnd(state.currentIndex, state.items, state.hasMore)
              /\ ~hasPrev(hook.state) <=> ~goPrevGuard(state.currentIndex))
    /\ [][(hook.phase = "mounted" /\ op' = "goNext" /\ ~hasNext(hook.state)) =>
              (state' = state /\ round' = <<>> /\ fetchCount' = fetchCount)]_vars
    /\ [][(hook.phase = "mounted" /\ op' = "goPrev" /\ ~hasPrev(hook.state)) =>
              (state' = state /\ round' = <<>>)]_vars
    /\ [][(hook.phase = "mounted" /\ state'.currentIndex # state.currentIndex) =>
              \/ op' = "goNext" /\ hasNext(hook.state)
              \/ op' = "goPrev" /\ hasPrev(hook.state)
              \/ op' = "rerender" /\ hook'.cores # hook.cores]_vars

\* goNext was called on the last item of an exhausted list, where the
\* component shows hasNext false and hasPrev true
C34_Witness ==
    /\ hook.phase = "mounted"
    /\ op = "goNext"
    /\ round = <<>>
    /\ ~hasNext(hook.state)
    /\ hasPrev(hook.state)
    /\ state.items # <<>>

\* the coordinate of a position along the swipe axis
Axis(position) == IF swipe.orientation = "horizontal" THEN position.x ELSE position.y

\* the step is a pointer move, with the pointer down, to a position more
\* than 5 px away from the pointer-down position along the swipe axis
MovedFar ==
    /\ op' = "pointerMove"
    /\ swipe.startPos # NoPos
    /\ Abs(Axis(swipe'.event[1]) - Axis(swipe.startPos[1])) > 5

\* C35: useSwipe starts dragging and captures the pointer only in a
\* pointer move that is more than 5 px away from the pointer-down position
\* along the swipe axis; a nearer move changes nothing, and a pointer up
\* that no drag preceded (a tap) only forgets the pointer-down position: it
\* captures nothing, starts no snap and calls no callback.
C35_DragOnlyBeyondFivePixels ==
    /\ [][(swipe'.isDragging /\ ~swipe.isDragging) => MovedFar]_vars
    /\ [][(swipe'.captured /\ ~swipe.captured) => MovedFar]_vars
    /\ [][(op' = "pointerMove" /\ ~swipe.isDragging /\ ~MovedFar) =>
              (swipe' = [swipe EXCEPT !.event = swipe'.event, !.called = <<>>]
               /\ state' = state)]_vars
    /\ [][(op' = "pointerUp" /\ ~swipe.isDragging) =>
              /\ swipe' = [swipe EXCEPT !.startPos = NoPos, !.event = <<>>,
                                        !.called = <<>>]
              /\ state' = state
              /\ fetchCount' = fetchCount]_vars

\* the pointer is down and has just moved by exactly 5 px along the swipe
\* axis: no drag, no capture
C35_Witness ==
    /\ op = "pointerMove"
    /\ swipe.startPos # NoPos
    /\ Abs(Axis(swipe.event[1]) - Axis(swipe.startPos[1])) = 5
    /\ ~swipe.isDragging
    /\ ~swipe.captured
    /\ ~swipe.isSnapping

\* C36: a snap towards the next item starts only at a pointer release
\* with a negative offset of magnitude above swipeThreshold and canGoNext
\* true, a snap towards the previous item only at a release with a positive
\* offset of magnitude above swipeThreshold and canGoPrev true; a callback
\* is called only by the transitionend of a snap, it is the one of the
\* direction of the snap, it is the only one, and a release starts at most
\* one transition, whose end is handled once.
C36_SwipeCallsOneCallbackAtTransitionEnd ==
    /\ [][(swipe'.snapDirection = "next" /\ swipe.snapDirection # "next") =>
              /\ op' = "pointerUp"
              /\ swipe.offset < 0
              /\ Abs(swipe.offset) > 50
              /\ hasNext(hook.state)]_vars
    /\ [][(swipe'.snapDirection = "prev" /\ swipe.snapDirection # "prev") =>
              /\ op' = "pointerUp"
              /\ swipe.offset > 0
              /\ Abs(swipe.offset) > 50
              /\ hasPrev(hook.state)]_vars
    /\ [][(swipe'.transition /\ ~swipe.transition) => op' = "pointerUp"]_vars
    /\ [][swipe'.called # <<>> =>
              /\ op' = "transitionEnd"
              /\ swipe.isSnapping
              /\ swipe.transition /\ ~swipe'.transition
              /\ swipe'.called = <<swipe.snapDirection>>
              /\ swipe.snapDirection \in {"next", "prev"}]_vars
    /\ [][(op' \in {"pointerDown", "pointerMove", "pointerUp", "transitionEnd"}
           /\ swipe'.called = <<>>) =>
              (state' = state /\ fetchCount' = fetchCount)]_vars

\* the snap of a swipe to the left has ended: onSwipeNext was called and
\* the display is on the next item
C36_Witness ==
    /\ op = "transitionEnd"
    /\ swipe.called = <<"next">>
    /\ state.currentIndex = 1
    /\ ~swipe.isSnapping
    /\ swipe.offset = 0

\* C37: when the transition of a snap ends the swipe is idle again
\* (isSnapping false, offset 0, no drag), whatever the snap was and
\* whatever goNext or goPrev did, so that the next pointer down is accepted.
C37_IdleAfterTransitionEnd ==
    [][op' = "transitionEnd" =>
           /\ ~swipe'.isSnapping
           /\ swipe'.offset = 0
           /\ ~swipe'.isDragging]_vars

====
